---- MODULE Spec2Model ----
(***************************************************************************)
(* Model of the 64-bit Montgomery field f64_risc0 (modulus 2^64 - 2^32 + 1) *)
(* of winterfell/math, its quadratic and cubic extensions, its byte         *)
(* (de)serialization and its process-wide inversion hint stores.            *)
(*                                                                          *)
(* TLC integers are 32 bits wide, so a u64 is a sequence of four 16-bit     *)
(* limbs, least significant first, and a u128 a sequence of eight.  Every   *)
(* wrapping / overflowing / widening primitive of the Rust code is an       *)
(* operator on such sequences with the width of the Rust type.              *)
(***************************************************************************)
EXTENDS Integers, Sequences, FiniteSets, TLC

\* ------------------------------------------------------------------------
\* Limb arithmetic: the machine integers of the source
\* ------------------------------------------------------------------------

\* radix of a limb
LimbBase == 2^16

\* radix of a byte
ByteBase == 2^8

\* the u64 / u128 value 0
Zero64 == <<0, 0, 0, 0>>

\* x + y + c on equal-length limb sequences; the last limb of the result is
\* the carry out
RECURSIVE AddLimbs(_, _, _)
AddLimbs(x, y, c) ==
    IF x = <<>> THEN <<c>>
    ELSE LET t == Head(x) + Head(y) + c
         IN  <<t % LimbBase>> \o AddLimbs(Tail(x), Tail(y), t \div LimbBase)

\* x - y - b on equal-length limb sequences, wrapping; the last limb of the
\* result is the borrow out
RECURSIVE SubLimbs(_, _, _)
SubLimbs(x, y, b) ==
    IF x = <<>> THEN <<b>>
    ELSE LET t == Head(x) - Head(y) - b
         IN  IF t < 0
             THEN <<t + LimbBase>> \o SubLimbs(Tail(x), Tail(y), 1)
             ELSE <<t>> \o SubLimbs(Tail(x), Tail(y), 0)

\* the limbs of x without the last one
Front(x) == SubSeq(x, 1, Len(x) - 1)

\* the product of two limbs as <<low limb, high limb>>; the factor b is
\* split into bytes so that no intermediate exceeds 31 bits
MulLimb(a, b) ==
    LET p0 == a * (b % ByteBase)
        p1 == a * (b \div ByteBase)
        t  == p0 + (p1 % ByteBase) * ByteBase
    IN  <<t % LimbBase, (p1 \div ByteBase) + (t \div LimbBase)>>

\* x * d + c for a limb sequence x and single limbs d, c; one limb longer
\* than x
RECURSIVE MulRow(_, _, _)
MulRow(x, d, c) ==
    IF x = <<>> THEN <<c>>
    ELSE LET p == MulLimb(Head(x), d)
             t == p[1] + c
         IN  <<t % LimbBase>> \o MulRow(Tail(x), d, p[2] + (t \div LimbBase))

\* x padded with zero limbs to n limbs
Pad(x, n) == [i \in 1..n |-> IF i <= Len(x) THEN x[i] ELSE 0]

\* x * y for limb sequences, Len(x) + Len(y) limbs (schoolbook)
RECURSIVE MulLimbs(_, _)
MulLimbs(x, y) ==
    IF y = <<>> THEN Pad(<<>>, Len(x))
    ELSE LET row  == MulRow(x, Head(y), 0)
             rest == <<0>> \o MulLimbs(x, Tail(y))
             n    == Len(x) + Len(y)
         IN  Front(AddLimbs(Pad(row, n), Pad(rest, n), 0))

\* comparison of equal-length limb sequences as numbers
RECURSIVE LessLimbs(_, _)
LessLimbs(x, y) ==
    IF x = <<>> THEN FALSE
    ELSE LET n == Len(x)
         IN  IF x[n] # y[n] THEN x[n] < y[n]
             ELSE LessLimbs(Front(x), Front(y))

\* u64::overflowing_add, as <<sum, carry>>
overflowing_add(x, y) ==
    LET s == AddLimbs(x, y, 0) IN <<Front(s), s[Len(s)]>>

\* u64::overflowing_sub, as <<difference, borrow>>
overflowing_sub(x, y) ==
    LET s == SubLimbs(x, y, 0) IN <<Front(s), s[Len(s)]>>

\* u64::wrapping_sub
wrapping_sub(x, y) == Front(SubLimbs(x, y, 0))

\* (x as u128) * (y as u128) for u64 x, y
widening_mul(x, y) == MulLimbs(x, y)

\* x as u128 for a u64 x
as_u128(x) == x \o Zero64

\* x as u64 for a u128 x (the low half) and (x >> 64) as u64 (the high half)
low_u64(x)  == SubSeq(x, 1, 4)
high_u64(x) == SubSeq(x, 5, 8)

\* x << 32 and x >> 32 on a u64
shl32(x) == <<0, 0, x[1], x[2]>>
shr32(x) == <<x[3], x[4], 0, 0>>

\* 0u32.wrapping_sub(c as u32) as u64 for a carry flag c: 0 or 0xFFFFFFFF
adj_mask(c) == IF c = 1 THEN <<65535, 65535, 0, 0>> ELSE Zero64

\* ------------------------------------------------------------------------
\* Constants of the field
\* ------------------------------------------------------------------------

\* Field modulus 2^64 - 2^32 + 1 = 0xFFFFFFFF00000001
M == <<1, 0, 65535, 65535>>

\* 2^128 mod M = 0xFFFFFFFE00000001
R2 == <<1, 0, 65534, 65535>>

\* size_of::<u64>()
ELEMENT_BYTES == 8

\* ------------------------------------------------------------------------
\* Montgomery reduction and the base field operations
\* ------------------------------------------------------------------------

\* the u64 and the u128 values
U64  == [1..4 -> 0..(LimbBase - 1)]
U128 == [1..8 -> 0..(LimbBase - 1)]

\* the body of mont_red_cst, as a function of the value of x
mont_red_val[x \in U128] ==
    LET xl == low_u64(x)
        xh == high_u64(x)
        ae == overflowing_add(xl, shl32(xl))
        a  == ae[1]
        e  == ae[2]
        b  == wrapping_sub(wrapping_sub(a, shr32(a)), <<e, 0, 0, 0>>)
        rc == overflowing_sub(xh, b)
    IN  wrapping_sub(rc[1], adj_mask(rc[2]))

\* mont_red_cst without the correction by 2^32 - 1 after a borrow
mont_red_cst_no_adjust(x) ==
    LET xl == low_u64(x)
        xh == high_u64(x)
        ae == overflowing_add(xl, shl32(xl))
        a  == ae[1]
        e  == ae[2]
        b  == wrapping_sub(wrapping_sub(a, shr32(a)), <<e, 0, 0, 0>>)
    IN  wrapping_sub(xh, b)

\* mont_red_cst(x) for a u128 x
mont_red_cst(x) == mont_red_val[x]

\* AccelBaseElementRisc0::from_mont: an element is its stored val
from_mont(value) == value

\* AccelBaseElementRisc0::convert_into
convert_into(value) == from_mont(mont_red_cst(widening_mul(value, R2)))

\* FieldElement::ZERO and FieldElement::ONE
ZERO == convert_into(Zero64)
ONE  == convert_into(<<1, 0, 0, 0>>)

\* Add::add in a build without overflow checks: M - rhs.val wraps
add(self, rhs) ==
    LET xc == overflowing_sub(self, wrapping_sub(M, rhs))
    IN  from_mont(wrapping_sub(xc[1], adj_mask(xc[2])))

\* whether M - rhs.val of Add::add overflows, which panics in a build with
\* overflow checks
add_overflows(rhs) == LessLimbs(M, rhs)

\* Sub::sub
sub(self, rhs) ==
    LET xc == overflowing_sub(self, rhs)
    IN  from_mont(wrapping_sub(xc[1], adj_mask(xc[2])))

\* the body of Mul::mul, as a function so that both operands are evaluated
\* before the product is (Rust evaluates operands first)
mul_val[self \in U64, rhs \in U64] ==
    from_mont(mont_red_cst(widening_mul(self, rhs)))

\* Mul::mul
mul(self, rhs) == mul_val[self, rhs]

\* a negation that is M - val for every val, for zero too
neg_modulus_minus(self) == from_mont(wrapping_sub(M, self))

\* Neg::neg
neg(self) == sub(ZERO, self)

\* FieldElement::double: ret = (val as u128) << 1, then
\* result.wrapping_sub(M * over)
double(self) ==
    LET x      == as_u128(self)
        ret    == Front(AddLimbs(x, x, 0))
        result == low_u64(ret)
        over   == high_u64(ret)
    IN  from_mont(wrapping_sub(result, low_u64(MulLimbs(M, over))))

\* FieldElement::square, the trait's default
square(self) == mul(self, self)

\* StarkField::as_int
as_int(self) == mont_red_cst(as_u128(self))

\* exp_acc::<N>(base, tail)
exp_acc_loop[N \in 0..32, result \in U64, tail \in U64] ==
    IF N = 0 THEN mul(result, tail)
    ELSE exp_acc_loop[N - 1, square(result), tail]

exp_acc(N, base, tail) == exp_acc_loop[N, base, tail]

\* exp_acc::<N>(x, x): the same value is the base and the tail
exp_acc_same(N, x) == exp_acc(N, x, x)

\* the addition chain with one squaring too few in its last exp_acc
inv_chain_short(self) ==
    LET t2  == mul(square(self), self)
        t3  == mul(square(t2), self)
        t6  == exp_acc_same(3, t3)
        t12 == exp_acc_same(6, t6)
        t24 == exp_acc_same(12, t12)
        t30 == exp_acc(6, t24, t6)
        t31 == mul(square(t30), self)
        t63 == exp_acc_same(31, t31)
    IN  mul(square(t63), self)

\* the addition chain of FieldElement::inv for self^(M - 2)
inv_chain(self) ==
    LET t2  == mul(square(self), self)
        t3  == mul(square(t2), self)
        t6  == exp_acc_same(3, t3)
        t12 == exp_acc_same(6, t6)
        t24 == exp_acc_same(12, t12)
        t30 == exp_acc(6, t24, t6)
        t31 == mul(square(t30), self)
        t63 == exp_acc_same(32, t31)
    IN  mul(square(t63), self)

\* FieldElement::inv past the use-hints block, on the operands in S
inv_on(S) == [self \in S |-> inv_chain(self)]

\* PartialEq::eq goes through equals(lhs, rhs), which works on the bits
\* of lhs ^ rhs.  XorLimb, OrLimb: bitwise ^ and | of two limbs.
RECURSIVE XorLimb(_, _, _)
XorLimb(a, b, n) ==
    IF n = 0 THEN 0
    ELSE ((a + b) % 2) + 2 * XorLimb(a \div 2, b \div 2, n - 1)

RECURSIVE OrLimb(_, _, _)
OrLimb(a, b, n) ==
    IF n = 0 THEN 0
    ELSE (IF a % 2 = 1 \/ b % 2 = 1 THEN 1 ELSE 0)
         + 2 * OrLimb(a \div 2, b \div 2, n - 1)

\* equals(lhs, rhs): t = lhs ^ rhs; !((((t | t.wrapping_neg()) as i64) >> 63)
\* as u64): the arithmetic shift copies the sign bit into every bit
equals(lhs, rhs) ==
    LET t    == [k \in 1..4 |-> XorLimb(lhs[k], rhs[k], 16)]
        nt   == wrapping_sub(Zero64, t)
        u    == [k \in 1..4 |-> OrLimb(t[k], nt[k], 16)]
        sign == u[4] \div 2^15
        sar  == [k \in 1..4 |-> sign * (LimbBase - 1)]
    IN  [k \in 1..4 |-> (LimbBase - 1) - sar[k]]

\* PartialEq::eq: equals(self.val, other.val) == 0xFFFFFFFFFFFFFFFF
eq(self, other) ==
    equals(self, other) = <<65535, 65535, 65535, 65535>>

\* ------------------------------------------------------------------------
\* Extension fields
\* ------------------------------------------------------------------------

\* DefaultNativeMul::native_mul_ext on the raw Montgomery values
native_mul_ext(a, b) ==
    LET a_fp   == <<from_mont(a[1]), from_mont(a[2])>>
        b_fp   == <<from_mont(b[1]), from_mont(b[2])>>
        a0b0   == mul(a_fp[1], b_fp[1])
        a1b1   == mul(a_fp[2], b_fp[2])
        first  == sub(a0b0, double(a1b1))
        a0a1   == add(a_fp[1], a_fp[2])
        b0b1   == add(b_fp[1], b_fp[2])
        second == sub(mul(a0a1, b0b1), a0b0)
    IN  <<first, second>>

\* the right operands of the additions of native_mul_ext: one of them above
\* M panics in a build with overflow checks
native_mul_ext_overflows(a, b) == add_overflows(a[2]) \/ add_overflows(b[2])

\* ExtensibleField<2>::mul
quad_mul(a, b) ==
    LET r == native_mul_ext(<<a[1], a[2]>>, <<b[1], b[2]>>)
    IN  <<from_mont(r[1]), from_mont(r[2])>>

\* ExtensibleField<3>::mul
cubic_mul(a, b) ==
    LET a0b0 == mul(a[1], b[1])
        a1b1 == mul(a[2], b[2])
        a2b2 == mul(a[3], b[3])
        a0b0_a0b1_a1b0_a1b1 == mul(add(a[1], a[2]), add(b[1], b[2]))
        a0b0_a0b2_a2b0_a2b2 == mul(add(a[1], a[3]), add(b[1], b[3]))
        a1b1_a1b2_a2b1_a2b2 == mul(add(a[2], a[3]), add(b[2], b[3]))
        a0b0_minus_a1b1 == sub(a0b0, a1b1)
        a0b0_a1b2_a2b1 ==
            sub(add(a1b1_a1b2_a2b1_a2b2, a0b0_minus_a1b1), a2b2)
        a0b1_a1b0_a1b2_a2b1_a2b2 ==
            sub(sub(add(a0b0_a0b1_a1b0_a1b1, a1b1_a1b2_a2b1_a2b2),
                    double(a1b1)), a0b0)
        a0b2_a1b1_a2b0_a2b2 == sub(a0b0_a0b2_a2b0_a2b2, a0b0_minus_a1b1)
    IN  <<a0b0_a1b2_a2b1, a0b1_a1b0_a1b2_a2b1_a2b2, a0b2_a1b1_a2b0_a2b2>>

\* the right operands of the additions of ExtensibleField<3>::mul
cubic_mul_overflows(a, b) ==
    \/ add_overflows(a[2]) \/ add_overflows(a[3])
    \/ add_overflows(b[2]) \/ add_overflows(b[3])
    \/ add_overflows(sub(mul(a[1], b[1]), mul(a[2], b[2])))
    \/ add_overflows(mul(add(a[2], a[3]), add(b[2], b[3])))

\* ------------------------------------------------------------------------
\* Bytes
\* ------------------------------------------------------------------------

\* u64::to_le_bytes
to_le_bytes(x) ==
    [i \in 1..ELEMENT_BYTES |->
        IF i % 2 = 1 THEN x[(i + 1) \div 2] % ByteBase
        ELSE x[i \div 2] \div ByteBase]

\* u64::from_le_bytes on an array of 8 bytes
from_le_bytes(bytes) ==
    [k \in 1..4 |-> bytes[2 * k - 1] + ByteBase * bytes[2 * k]]

\* results of fallible and panicking operations
Ok(v)     == [tag |-> "Ok", val |-> v]
Err(kind) == [tag |-> "Err", val |-> kind]
Panic     == [tag |-> "Panic", val |-> "overflow"]

\* try_from without the comparison of the value with M
try_from_unchecked(bytes) ==
    IF Len(bytes) < ELEMENT_BYTES THEN Err("InvalidValue")
    ELSE IF Len(bytes) > ELEMENT_BYTES THEN Err("InvalidValue")
    ELSE Ok(convert_into(from_le_bytes(bytes)))

\* TryFrom<&[u8]>::try_from
try_from(bytes) ==
    IF Len(bytes) < ELEMENT_BYTES THEN Err("InvalidValue")
    ELSE IF Len(bytes) > ELEMENT_BYTES THEN Err("InvalidValue")
    ELSE LET value == from_le_bytes(bytes)
         IN  IF ~LessLimbs(value, M) THEN Err("InvalidValue")
             ELSE Ok(convert_into(value))

\* Serializable::write_into: the bytes appended to the target
write_into(self) == to_le_bytes(as_int(self))

\* ByteReader::read_u64 on the unread bytes of a source
read_u64(source) ==
    IF Len(source) < ELEMENT_BYTES THEN Err("UnexpectedEOF")
    ELSE Ok(from_le_bytes(SubSeq(source, 1, ELEMENT_BYTES)))

\* Deserializable::read_from
read_from(source) ==
    LET value == read_u64(source)
    IN  IF value.tag = "Err" THEN value
        ELSE IF ~LessLimbs(value.val, M) THEN Err("InvalidValue")
        ELSE Ok(convert_into(value.val))

\* ------------------------------------------------------------------------
\* The mathematics the code is compared with: naturals as limb sequences,
\* reduced mod M by binary long division
\* ------------------------------------------------------------------------

\* M as a five-limb number
M5 == M \o <<0>>

\* (2 * r + bit) mod M for r < M
ModStep(r, bit) ==
    LET t == AddLimbs(r, r, bit)
    IN  IF LessLimbs(t, M5) THEN Front(t) ELSE SubSeq(SubLimbs(t, M5, 0), 1, 4)

\* (r * 2^n + the low n bits of limb) mod M, for r < M
ModLimb[n \in 0..16, r \in U64, limb \in 0..(LimbBase - 1)] ==
    IF n = 0 THEN r
    ELSE ModLimb[n - 1, ModStep(r, (limb \div 2^(n - 1)) % 2), limb]

\* x mod M for a limb sequence x of any length
ModM(x) ==
    LET f[i \in 0..Len(x)] ==
            IF i = 0 THEN Zero64 ELSE ModLimb[16, f[i - 1], x[Len(x) + 1 - i]]
    IN  f[Len(x)]

\* the field GF(M) on canonical integers
FAdd(x, y) == ModM(AddLimbs(x, y, 0))
FMul(x, y) == ModM(MulLimbs(x, y))
FNeg(x)    == IF x = Zero64 THEN Zero64 ELSE wrapping_sub(M, x)
FSub(x, y) == FAdd(x, FNeg(y))

\* R^-1 mod M for R = 2^64: 2^192 = 1 (mod M), so R^-1 = 2^128 mod M
RInv == <<1, 0, 65534, 65535>>

\* the abstract value val * R^-1 mod M a stored val encodes
Decode(val) == FMul(val, RInv)

\* the numbers below M
IsCanonical(val) == LessLimbs(val, M)

\* ------------------------------------------------------------------------
\* Inputs of the model
\* ------------------------------------------------------------------------

\* how many of SampleVals the base field operations are run on
NumSamples == 8

\* how many of ExtVals the coordinates of extension elements are drawn from
NumExt == 4

\* the longest byte slice handed to try_from
MaxSliceLen == 9

\* 2^63 - 1, the largest val whose double does not carry out of 64 bits
HalfMax == <<65535, 65535, 65535, 32767>>

\* stored vals: 0, ONE = 0xFFFFFFFF, 2^63 - 1, M - 1, M, 2^64 - 1, 1, M + 1,
\* 0x0123456789ABCDEF, 2^32, 2^63, 0xFFFFFFFE00000002
SampleVals ==
    << <<0, 0, 0, 0>>,
       <<65535, 65535, 0, 0>>,
       HalfMax,
       <<0, 0, 65535, 65535>>,
       <<1, 0, 65535, 65535>>,
       <<65535, 65535, 65535, 65535>>,
       <<1, 0, 0, 0>>,
       <<2, 0, 65535, 65535>>,
       <<52719, 35243, 17767, 291>>,
       <<0, 0, 1, 0>>,
       <<0, 0, 0, 32768>>,
       <<2, 0, 65534, 65535>> >>

Min(i, j) == IF i < j THEN i ELSE j

\* the stored vals the base field operations are run on
Samples == {SampleVals[i] : i \in 1..Min(NumSamples, Len(SampleVals))}

\* canonical coordinates of extension elements: 0, ONE, 2^63 - 1 and its
\* negation, 1, M - 1, 2^32
ExtVals ==
    << <<0, 0, 0, 0>>,
       <<65535, 65535, 0, 0>>,
       HalfMax,
       <<2, 0, 65535, 32767>>,
       <<1, 0, 0, 0>>,
       <<0, 0, 65535, 65535>>,
       <<0, 0, 1, 0>> >>

ExtSamples == {ExtVals[i] : i \in 1..Min(NumExt, Len(ExtVals))}

\* x cut or padded (with 0xFF) to n bytes
Resize(x, n) == [i \in 1..n |-> IF i <= Len(x) THEN x[i] ELSE 255]

\* byte slices of every length up to MaxSliceLen
ByteSlices ==
    {Resize(to_le_bytes(v), n) : v \in Samples, n \in 0..MaxSliceLen}

\* ------------------------------------------------------------------------
\* State
\* ------------------------------------------------------------------------

VARIABLES
    op,               \* the operation a caller of the field ran last
    args,             \* its operands
    out,              \* its result
    overflow_checks,  \* whether the build panics on integer overflow
    use_hints,        \* cfg(feature = "use-hints")
    generate_hints,   \* cfg(all(feature = "generate-hints", feature = "std"))
    INV_NONDET,       \* hints::INV_NONDET: val -> val of the inverse
    INV_NONDET_QUAD,  \* hints::INV_NONDET_QUAD: [u64; 2] -> [u64; 2]
    inv_lock,         \* the holder of INV_NONDET's spin mutex, or "free"
    quad_lock,        \* the holder of INV_NONDET_QUAD's spin mutex, or "free"
    pc,               \* where each thread is in its current call
    call,             \* the current or last call of each thread: its operands
                      \* and, for inv, what the use-hints block found
    local,            \* the local variables of each thread's call
    returned,         \* what the last call of each thread returned
    origin,           \* history: who wrote each entry of INV_NONDET last
    saved,            \* history: the last pair save_hint recorded per element
    trail             \* the elements a computation has built, oldest first

avars == <<op, args, out>>

hvars == <<use_hints, generate_hints, INV_NONDET, INV_NONDET_QUAD, inv_lock,
           quad_lock, pc, call, local, returned, origin, saved>>

vars == <<op, args, out, overflow_checks, use_hints, generate_hints,
          INV_NONDET, INV_NONDET_QUAD, inv_lock, quad_lock, pc, call, local,
          returned, origin, saved, trail>>

\* the threads of the process: the one that runs fib_winter and one
\* that runs field operations next to it
Threads == {"main", "worker"}

\* the empty map
EmptyMap == [k \in {} |-> {}]

\* an insert that puts the new entry in place of the map
InsertAlone(map, k, v) == [x \in {k} |-> v]

\* BTreeMap::insert: the entry for k is set, whether or not there was one
Insert(map, k, v) == [x \in DOMAIN map \cup {k} |-> IF x = k THEN v ELSE map[x]]

\* a thread outside any call
NoCall  == [fn |-> "none", a |-> <<>>, b |-> <<>>, hit |-> "none",
            cached |-> <<>>]
NoLocal == [cached |-> <<>>, res |-> <<>>]
NoRet   == [tag |-> "Unit", val |-> <<>>]

\* no thread is in a call and both stores are as Lazy::new creates them
HIdle ==
    /\ INV_NONDET = EmptyMap
    /\ INV_NONDET_QUAD = EmptyMap
    /\ inv_lock = "free"
    /\ quad_lock = "free"
    /\ pc = [t \in Threads |-> "idle"]
    /\ call = [t \in Threads |-> NoCall]
    /\ local = [t \in Threads |-> NoLocal]
    /\ returned = [t \in Threads |-> NoRet]
    /\ origin = EmptyMap
    /\ saved = EmptyMap

AInit ==
    /\ op = "idle"
    /\ args = <<>>
    /\ out = <<>>
    /\ overflow_checks \in BOOLEAN
    /\ use_hints = FALSE
    /\ generate_hints = FALSE
    /\ HIdle
    /\ trail = <<>>

\* ------------------------------------------------------------------------
\* Callers of the field: one operation on operands of their choice
\* ------------------------------------------------------------------------

Call(name, operands, result) ==
    /\ op' = name
    /\ args' = operands
    /\ out' = result
    /\ UNCHANGED <<overflow_checks, hvars, trail>>

DoConvertInto ==
    /\ op = "idle"
    /\ \E x \in Samples : Call("convert_into", <<x>>, Ok(convert_into(x)))

DoAdd ==
    /\ op = "idle"
    /\ \E a \in Samples, b \in Samples :
           Call("add", <<a, b>>,
                IF overflow_checks /\ add_overflows(b) THEN Panic
                ELSE Ok(add(a, b)))

DoSub ==
    /\ op = "idle"
    /\ \E a \in Samples, b \in Samples :
           Call("sub", <<a, b>>, Ok(sub(a, b)))

DoMul ==
    /\ op = "idle"
    /\ \E a \in Samples, b \in Samples :
           Call("mul", <<a, b>>, Ok(mul(a, b)))

DoNeg ==
    /\ op = "idle"
    /\ \E a \in Samples : Call("neg", <<a>>, Ok(neg(a)))

DoDouble ==
    /\ op = "idle"
    /\ \E a \in Samples : Call("double", <<a>>, Ok(double(a)))

DoAsInt ==
    /\ op = "idle"
    /\ \E a \in Samples : Call("as_int", <<a>>, Ok(as_int(a)))

DoQuadMul ==
    /\ op = "idle"
    /\ \E a0 \in ExtSamples, a1 \in ExtSamples,
          b0 \in ExtSamples, b1 \in ExtSamples :
           LET a == <<a0, a1>>
               b == <<b0, b1>>
           IN  Call("quad_mul", <<a, b>>,
                    IF overflow_checks /\ native_mul_ext_overflows(a, b)
                    THEN Panic ELSE Ok(quad_mul(a, b)))

DoCubicMul ==
    /\ op = "idle"
    /\ \E a0 \in ExtSamples, a1 \in ExtSamples, a2 \in ExtSamples,
          b0 \in ExtSamples, b1 \in ExtSamples, b2 \in ExtSamples :
           LET a == <<a0, a1, a2>>
               b == <<b0, b1, b2>>
           IN  Call("cubic_mul", <<a, b>>,
                    IF overflow_checks /\ cubic_mul_overflows(a, b)
                    THEN Panic ELSE Ok(cubic_mul(a, b)))

DoTryFrom ==
    /\ op = "idle"
    /\ \E bytes \in ByteSlices :
           Call("try_from", <<bytes>>, try_from(bytes))

DoWriteInto ==
    /\ op = "idle"
    /\ \E a \in Samples : Call("write_into", <<a>>, Ok(write_into(a)))

\* write_into to an empty target, then read_from on what was written
DoRoundTrip ==
    /\ op = "idle"
    /\ \E a \in Samples :
           Call("round_trip", <<a>>, read_from(write_into(a)))

\* the caller goes on to its next operation
Return ==
    /\ op # "idle"
    /\ op' = "idle"
    /\ args' = <<>>
    /\ out' = <<>>
    /\ UNCHANGED <<overflow_checks, hvars, trail>>

Operation ==
    \/ DoConvertInto
    \/ DoAdd
    \/ DoSub
    \/ DoMul
    \/ DoNeg
    \/ DoDouble
    \/ DoAsInt
    \/ DoQuadMul
    \/ DoCubicMul
    \/ DoTryFrom
    \/ DoWriteInto
    \/ DoRoundTrip

ANext == Operation \/ Return

Init == AInit

Next == ANext

Spec == Init /\ [][Next]_vars

\* ------------------------------------------------------------------------
\* The hint stores and the threads that use them
\* ------------------------------------------------------------------------

\* how many of InvArgVals inv is called on
NumInvArgs == 2

\* operands of inv: 2^63 - 1, ZERO, the non-canonical 2^64 - 1, ONE
InvArgVals ==
    << HalfMax,
       <<0, 0, 0, 0>>,
       <<65535, 65535, 65535, 65535>>,
       <<65535, 65535, 0, 0>> >>

InvArgs == {InvArgVals[i] : i \in 1..Min(NumInvArgs, Len(InvArgVals))}

\* the addition chain on the operands of inv
inv_val == inv_on(InvArgs)

\* quadratic elements hints are saved and looked up for: (ONE, ZERO) and the
\* element whose canonical coordinates are the stored vals of (ONE, ZERO)
QuadArgs == { <<ONE, ZERO>>, <<convert_into(ONE), ZERO>> }

\* the inverse pair saved with them
QuadVals == { <<ZERO, ONE>> }

\* the hint statics exist under cfg(any(generate-hints, use-hints))
HintsCompiled == use_hints \/ generate_hints

HInit ==
    /\ op = "idle"
    /\ args = <<>>
    /\ out = <<>>
    /\ overflow_checks = FALSE
    /\ use_hints \in BOOLEAN
    /\ generate_hints \in BOOLEAN
    /\ HIdle
    /\ trail = <<>>

\* what no step of a thread changes: the build, the callers' operation and
\* the elements built
fixed == <<avars, overflow_checks, use_hints, generate_hints, trail>>

\* thread t moves to label l
Goto(t, l) == pc' = [pc EXCEPT ![t] = l]

\* thread t, between calls, calls fn(a, b)
Start(t, fn, a, b) ==
    /\ pc[t] = "idle"
    /\ call' = [call EXCEPT ![t] = [fn |-> fn, a |-> a, b |-> b,
                                    hit |-> "none", cached |-> <<>>]]

\* the call of thread t has not returned yet
Running(t) == returned' = [returned EXCEPT ![t] = NoRet]

\* thread t returns r from its call; its locals are gone
Done(t, r) ==
    /\ Goto(t, "idle")
    /\ returned' = [returned EXCEPT ![t] = r]
    /\ local' = [local EXCEPT ![t] = NoLocal]

\* the panic of a failed assert!
AssertFailed == [tag |-> "Panic", val |-> "assertion failed"]

\* a panic unwinds thread t; the guards it held are dropped on the way
Unwind(t, r) ==
    /\ Goto(t, "panicked")
    /\ returned' = [returned EXCEPT ![t] = r]
    /\ local' = [local EXCEPT ![t] = NoLocal]

\* FieldElement::inv, use-hints block: INV_NONDET.lock().get(&self.val) and
\* the clone of what it finds; the guard of the if-let scrutinee is dropped
\* at once on a miss and lives through the body on a hit
InvGet(t) ==
    /\ use_hints
    /\ inv_lock = "free"
    /\ pc[t] = "idle"
    /\ \E self \in InvArgs :
           IF self \in DOMAIN INV_NONDET
           THEN /\ inv_lock' = t
                /\ call' = [call EXCEPT ![t] =
                       [fn |-> "inv", a |-> self, b |-> <<>>,
                        hit |-> origin[self], cached |-> INV_NONDET[self]]]
                /\ local' = [local EXCEPT ![t] =
                       [cached |-> INV_NONDET[self], res |-> <<>>]]
                /\ Goto(t, "inv_check")
           ELSE /\ inv_lock' = "free"
                /\ call' = [call EXCEPT ![t] =
                       [fn |-> "inv", a |-> self, b |-> <<>>,
                        hit |-> "miss", cached |-> <<>>]]
                /\ local' = [local EXCEPT ![t] = NoLocal]
                /\ Goto(t, "inv_chain")
    /\ Running(t)
    /\ UNCHANGED fixed
    /\ UNCHANGED <<INV_NONDET, INV_NONDET_QUAD, quad_lock, origin, saved>>

\* the assertion of the use-hints block always passes
hint_check_skipped(res_c, self) == TRUE

\* the assertion of the use-hints block on the cached value res_c
hint_check(res_c, self) == eq(mul(from_mont(res_c), self), ONE)

\* FieldElement::inv, use-hints block: the assertion and the return
InvCheck(t) ==
    /\ pc[t] = "inv_check"
    /\ inv_lock = t
    /\ inv_lock' = "free"
    /\ IF hint_check(local[t].cached, call[t].a)
       THEN Done(t, Ok(from_mont(local[t].cached)))
       ELSE Unwind(t, AssertFailed)
    /\ UNCHANGED fixed
    /\ UNCHANGED <<INV_NONDET, INV_NONDET_QUAD, quad_lock, call, origin,
                   saved>>

\* FieldElement::inv without the use-hints block: straight to the chain
InvPlain(t) ==
    /\ ~use_hints
    /\ \E self \in InvArgs : Start(t, "inv", self, <<>>)
    /\ local' = [local EXCEPT ![t] = NoLocal]
    /\ Goto(t, "inv_chain")
    /\ UNCHANGED fixed
    /\ Running(t)
    /\ UNCHANGED <<INV_NONDET, INV_NONDET_QUAD, inv_lock, quad_lock, origin,
                   saved>>

\* FieldElement::inv: the addition chain, then under generate-hints
\* INV_NONDET.lock().insert(self.val, res.val), then the return of res
InvChain(t) ==
    /\ pc[t] = "inv_chain"
    /\ LET self == call[t].a
           res  == inv_val[self]
       IN  /\ IF generate_hints
              THEN /\ inv_lock = "free"
                   /\ INV_NONDET' = Insert(INV_NONDET, self, res)
                   /\ origin' = Insert(origin, self, "gen")
              ELSE UNCHANGED <<INV_NONDET, origin>>
           /\ Done(t, Ok(res))
    /\ UNCHANGED fixed
    /\ UNCHANGED <<INV_NONDET_QUAD, inv_lock, quad_lock, call, saved>>

\* what use_hint returns for a on the store map
use_hint_lookup(map, a) ==
    LET k == <<a[1], a[2]>>
    IN  IF k \in DOMAIN map
        THEN [tag |-> "Some",
              val |-> <<convert_into(map[k][1]), convert_into(map[k][2])>>]
        ELSE [tag |-> "None", val |-> <<>>]

\* ExtensibleField<2>::use_hint (the extension field is inverted on the
\* main thread): INV_NONDET_QUAD.lock().get(&k) under use-hints, None
\* without
UseHint(t) ==
    /\ t = "main"
    /\ \E a \in QuadArgs :
           /\ Start(t, "use_hint", a, <<>>)
           /\ IF use_hints
              THEN /\ quad_lock = "free"
                   /\ Done(t, use_hint_lookup(INV_NONDET_QUAD, a))
              ELSE Done(t, [tag |-> "None", val |-> <<>>])
    /\ UNCHANGED fixed
    /\ UNCHANGED <<INV_NONDET, INV_NONDET_QUAD, inv_lock, quad_lock, origin,
                   saved>>

\* the key and the value save_hint inserts for (a, b)
save_hint_key(a)   == <<as_int(a[1]), as_int(a[2])>>
save_hint_value(b) == <<as_int(b[1]), as_int(b[2])>>

\* ExtensibleField<2>::save_hint: INV_NONDET_QUAD.lock().insert(key, value)
\* under generate-hints, nothing without
SaveHint(t) ==
    /\ t = "main"
    /\ \E a \in QuadArgs, b \in QuadVals :
           /\ Start(t, "save_hint", a, b)
           /\ IF generate_hints
              THEN /\ quad_lock = "free"
                   /\ INV_NONDET_QUAD' = Insert(INV_NONDET_QUAD,
                          save_hint_key(a), save_hint_value(b))
                   /\ saved' = Insert(saved, a, b)
              ELSE UNCHANGED <<INV_NONDET_QUAD, saved>>
    /\ Done(t, NoRet)
    /\ UNCHANGED fixed
    /\ UNCHANGED <<INV_NONDET, inv_lock, quad_lock, origin>>

\* generate_winter_fib_proof on the main thread, the FibRiscInput literal:
\* inv_nondet: INV_NONDET.lock().clone(), kept by its keys; the guard is a
\* temporary of the let statement and lives to its end
SnapshotInv(t) ==
    /\ t = "main"
    /\ HintsCompiled
    /\ Start(t, "snapshot", <<>>, <<>>)
    /\ inv_lock = "free"
    /\ inv_lock' = t
    /\ local' = [local EXCEPT ![t] =
           [cached |-> DOMAIN INV_NONDET, res |-> <<>>]]
    /\ Goto(t, "snapshot_quad")
    /\ UNCHANGED fixed
    /\ Running(t)
    /\ UNCHANGED <<INV_NONDET, INV_NONDET_QUAD, quad_lock, origin, saved>>

\* inv_nondet_quad: INV_NONDET_QUAD.lock().clone(), kept by its keys
SnapshotQuad(t) ==
    /\ pc[t] = "snapshot_quad"
    /\ quad_lock = "free"
    /\ quad_lock' = t
    /\ local' = [local EXCEPT ![t].res = DOMAIN INV_NONDET_QUAD]
    /\ Goto(t, "snapshot_end")
    /\ UNCHANGED fixed
    /\ UNCHANGED <<INV_NONDET, INV_NONDET_QUAD, inv_lock, call, returned, origin,
                   saved>>

\* the end of the let statement: both guards are dropped
SnapshotEnd(t) ==
    /\ pc[t] = "snapshot_end"
    /\ quad_lock' = "free"
    /\ inv_lock' = "free"
    /\ Done(t, Ok(<<local[t].cached, local[t].res>>))
    /\ UNCHANGED fixed
    /\ UNCHANGED <<INV_NONDET, INV_NONDET_QUAD, call, origin, saved>>

\* values other code of the process puts into the public INV_NONDET: ONE,
\* and the inverse of 2^63 - 1
ExternalVals == { ONE, <<37449, 18724, 18725, 9362>> }

\* other code of the process fills the public static INV_NONDET, as the
\* consumer of a snapshot does: INV_NONDET.lock().insert(k, v)
ExternalInsert ==
    /\ HintsCompiled
    /\ inv_lock = "free"
    /\ \E k \in InvArgs, v \in ExternalVals :
           /\ INV_NONDET' = Insert(INV_NONDET, k, v)
           /\ origin' = Insert(origin, k, "ext")
    /\ UNCHANGED fixed
    /\ UNCHANGED <<INV_NONDET_QUAD, inv_lock, quad_lock, pc, call, local, returned,
                   saved>>

ThreadStep(t) ==
    \/ InvGet(t)
    \/ InvCheck(t)
    \/ InvPlain(t)
    \/ InvChain(t)
    \/ UseHint(t)
    \/ SaveHint(t)
    \/ SnapshotInv(t)
    \/ SnapshotQuad(t)
    \/ SnapshotEnd(t)

HNext ==
    \/ \E t \in Threads : ThreadStep(t)
    \/ ExternalInsert

SpecHints == HInit /\ [][HNext]_vars

\* ------------------------------------------------------------------------
\* A computation that builds elements with convert_into and derives further
\* ones from those it has, without the hint features
\* ------------------------------------------------------------------------

\* how many of SeedInts convert_into is called on
NumSeeds == 4

\* how many elements a computation builds
MaxTrail == 3

\* integers given to convert_into: 2^32 (stored as M - 1), 0, 2^64 - 1 (not
\* below M), 0xFFFFFFFE80000001 (stored as (M + 1) / 2), 1
SeedInts ==
    << <<0, 0, 1, 0>>,
       <<0, 0, 0, 0>>,
       <<65535, 65535, 65535, 65535>>,
       <<1, 32768, 65534, 65535>>,
       <<1, 0, 0, 0>> >>

Seeds == {SeedInts[i] : i \in 1..Min(NumSeeds, Len(SeedInts))}

\* the elements built so far
Built == {trail[i] : i \in DOMAIN trail}

\* the computation may build one more element
Room == Len(trail) < MaxTrail

\* the operation name on operands yields the element result
Push(name, operands, result) ==
    /\ trail' = Append(trail, result)
    /\ op' = name
    /\ args' = operands
    /\ out' = Ok(result)
    /\ UNCHANGED <<overflow_checks, hvars>>

BuildElement ==
    /\ Room
    /\ \E x \in Seeds : Push("convert_into", <<x>>, convert_into(x))

\* Add::add on built elements; where M - rhs.val panics no element results
ChainAdd ==
    /\ Room
    /\ \E a \in Built, b \in Built :
           /\ ~(overflow_checks /\ add_overflows(b))
           /\ Push("add", <<a, b>>, add(a, b))

ChainSub ==
    /\ Room
    /\ \E a \in Built, b \in Built : Push("sub", <<a, b>>, sub(a, b))

ChainMul ==
    /\ Room
    /\ \E a \in Built, b \in Built : Push("mul", <<a, b>>, mul(a, b))

ChainNeg ==
    /\ Room
    /\ \E a \in Built : Push("neg", <<a>>, neg(a))

\* FieldElement::inv without the hint features: the addition chain
ChainInv ==
    /\ Room
    /\ \E a \in Built : Push("inv", <<a>>, inv_chain(a))

CInit == AInit

CNext ==
    \/ BuildElement
    \/ ChainAdd
    \/ ChainSub
    \/ ChainMul
    \/ ChainNeg
    \/ ChainInv

SpecClosure == CInit /\ [][CNext]_vars

\* ------------------------------------------------------------------------
\* Properties of the field operations (checked under Spec)
\* ------------------------------------------------------------------------

\* the sum, difference, product, negation or doubling of the decoded
\* operands that the operation named op is to return
Expected(name, operands) ==
    LET a == Decode(operands[1])
        b == Decode(operands[Len(operands)])
    IN  CASE name = "add"    -> FAdd(a, b)
          [] name = "sub"    -> FSub(a, b)
          [] name = "mul"    -> FMul(a, b)
          [] name = "neg"    -> FNeg(a)
          [] name = "double" -> FAdd(a, a)

\* C1: for all stored vals in [0, 2^64), add, sub, mul, neg and double
\* return a val that decodes to the sum, difference, product, negation or
\* doubling of the decoded operands mod M.
C1_ArithmeticDecodesCorrectly ==
    op \in {"add", "sub", "mul", "neg", "double"} =>
        /\ out.tag = "Ok"
        /\ Decode(out.val) = Expected(op, args)

\* the product of two quadratic elements given by their decoded
\* coordinates: (a0 b0 - 2 a1 b1, a0 b1 + a1 b0 + a1 b1)
QuadProduct(a, b) ==
    LET a1b1 == FMul(a[2], b[2])
    IN  << FSub(FMul(a[1], b[1]), FAdd(a1b1, a1b1)),
           FAdd(FAdd(FMul(a[1], b[2]), FMul(a[2], b[1])), a1b1) >>

\* C2: for quadratic elements with canonical coordinates,
\* ExtensibleField<2>::mul returns coordinates that decode to the product in
\* GF(M)[phi]/(phi^2 - phi + 2).
C2_QuadMulExact ==
    op = "quad_mul" =>
        /\ out.tag = "Ok"
        /\ [i \in 1..2 |-> Decode(out.val[i])]
               = QuadProduct([i \in 1..2 |-> Decode(args[1][i])],
                             [i \in 1..2 |-> Decode(args[2][i])])

\* the sum of a sequence of field values
RECURSIVE FSum(_)
FSum(xs) == IF xs = <<>> THEN Zero64 ELSE FAdd(Head(xs), FSum(Tail(xs)))

\* the schoolbook product of two cubic elements given by their decoded
\* coordinates, reduced by phi^3 = phi + 1
CubicProduct(a, b) ==
    LET p(i, j) == FMul(a[i + 1], b[j + 1])
    IN  << FSum(<<p(0, 0), p(1, 2), p(2, 1)>>),
           FSum(<<p(0, 1), p(1, 0), p(1, 2), p(2, 1), p(2, 2)>>),
           FSum(<<p(0, 2), p(1, 1), p(2, 0), p(2, 2)>>) >>

\* C3: for cubic elements with canonical coordinates,
\* ExtensibleField<3>::mul returns coordinates that decode to the schoolbook
\* product reduced by phi^3 = phi + 1.
C3_CubicMulExact ==
    op = "cubic_mul" =>
        /\ out.tag = "Ok"
        /\ [i \in 1..3 |-> Decode(out.val[i])]
               = CubicProduct([i \in 1..3 |-> Decode(args[1][i])],
                              [i \in 1..3 |-> Decode(args[2][i])])

\* C8: try_from fails with InvalidValue whenever the slice is not exactly 8
\* bytes long or its little-endian value is at least M, and no element is
\* produced; on 8 bytes encoding v < M it returns the element whose
\* canonical integer is v.
C8_TryFromChecked ==
    op = "try_from" =>
        LET bytes == args[1]
        IN  IF Len(bytes) # 8 \/ ~IsCanonical(from_le_bytes(bytes))
            THEN out = Err("InvalidValue")
            ELSE /\ out.tag = "Ok"
                 /\ Decode(out.val) = from_le_bytes(bytes)

\* C8 witness: eight bytes that encode a value of at least M are refused
C8_Witness ==
    /\ op = "try_from"
    /\ Len(args[1]) = 8
    /\ ~IsCanonical(from_le_bytes(args[1]))
    /\ out = Err("InvalidValue")

\* C9: for every stored val, read_from over what write_into wrote succeeds
\* and returns an element that is == the one written.
C9_SerializationRoundTrip ==
    op = "round_trip" =>
        /\ out.tag = "Ok"
        /\ eq(out.val, args[1])

\* C10: as_int returns the one r < M with r = val * R^-1 (mod M) for every
\* stored val; write_into writes that r as 8 little-endian bytes, never the
\* Montgomery bits; as_int(convert_into(x)) = x mod M.
C10_AsIntCanonical ==
    /\ ModM(MulLimbs(RInv, <<0, 0, 0, 0, 1>>)) = <<1, 0, 0, 0>>
    /\ op = "as_int" =>
           /\ IsCanonical(out.val)
           /\ out.val = Decode(args[1])
    /\ op = "write_into" =>
           /\ Len(out.val) = 8
           /\ \A i \in 1..8 : out.val[i] \in 0..255
           /\ from_le_bytes(out.val) = Decode(args[1])
           /\ IsCanonical(from_le_bytes(out.val))
    /\ op = "convert_into" =>
           as_int(out.val) = ModM(args[1])

\* C10 witness: a val of at least M is written as its canonical integer,
\* which differs from the stored bits
C10_Witness ==
    /\ op = "write_into"
    /\ ~IsCanonical(args[1])
    /\ from_le_bytes(out.val) = Decode(args[1])
    /\ from_le_bytes(out.val) # args[1]

\* C11: for every stored val, double(a) returns the very val that add(a, a)
\* returns (and add(a, a) does return one).
C11_DoubleIsAddSelf ==
    op = "double" =>
        /\ out.tag = "Ok"
        /\ ~(overflow_checks /\ add_overflows(args[1]))
        /\ out.val = add(args[1], args[1])

\* ------------------------------------------------------------------------
\* Properties of inv and of the hint stores (checked under SpecHints)
\* ------------------------------------------------------------------------

\* thread t has come back from a call of fn, by a return or by a panic
Finished(t, fn) == pc[t] \in {"idle", "panicked"} /\ call[t].fn = fn

\* C4: whenever inv(a) returns for an a that does not encode zero, be it
\* from the addition chain or from the use-hints block, a * inv(a) == ONE
\* under the == of the element.
C4_InverseLaw ==
    \A t \in Threads :
        (/\ Finished(t, "inv")
         /\ returned[t].tag = "Ok"
         /\ Decode(call[t].a) # Zero64)
        => eq(mul(call[t].a, returned[t].val), ONE)

\* C4 happens: one thread has its inverse of a nonzero a from the chain and
\* the other has it from the store
C4_Witness ==
    \E t \in Threads, u \in Threads :
        /\ Finished(t, "inv") /\ Finished(u, "inv")
        /\ returned[t].tag = "Ok" /\ returned[u].tag = "Ok"
        /\ Decode(call[t].a) # Zero64 /\ Decode(call[u].a) # Zero64
        /\ call[t].hit \in {"none", "miss"}
        /\ call[u].hit \in {"gen", "ext"}

\* C5: an inv(a) that finds in the store the entry hint generation recorded
\* for a returns the value the addition chain computes for a.
C5_BaseHintRoundTrip ==
    \A t \in Threads :
        (Finished(t, "inv") /\ call[t].hit = "gen")
        => returned[t] = Ok(inv_chain(call[t].a))

\* C6: in a build that consumes hints, use_hint(a) returns the pair that
\* save_hint recorded for a, and None when none was recorded for a.
C6_QuadHintRoundTrip ==
    \A t \in Threads :
        (use_hints /\ Finished(t, "use_hint"))
        => IF call[t].a \in DOMAIN saved
           THEN returned[t] = [tag |-> "Some", val |-> saved[call[t].a]]
           ELSE returned[t] = [tag |-> "None", val |-> <<>>]

\* C7: whatever the store holds and however the threads interleave, an
\* inv(a) that found a cached value r returns r if r * a == ONE and panics
\* if not; it never returns a cached r with r * a # ONE.
C7_HintSelfCheck ==
    \A t \in Threads :
        (Finished(t, "inv") /\ call[t].hit \in {"gen", "ext"})
        => IF eq(mul(call[t].cached, call[t].a), ONE)
           THEN pc[t] = "idle" /\ returned[t] = Ok(call[t].cached)
           ELSE pc[t] = "panicked" /\ returned[t] = AssertFailed

\* C7 happens: the store held a wrong value for a that other code had put
\* over the one a generating thread recorded, and the inv that found it
\* panicked
C7_Witness ==
    \E t \in Threads, u \in Threads :
        /\ pc[t] = "panicked" /\ call[t].fn = "inv" /\ call[t].hit = "ext"
        /\ ~eq(mul(call[t].cached, call[t].a), ONE)
        /\ Finished(u, "inv") /\ call[u].hit = "miss" /\ call[u].a = call[t].a
        /\ generate_hints

\* every entry of INV_NONDET was recorded by hint generation
OnlyGenerated == \A k \in DOMAIN origin : origin[k] = "gen"

\* C12: inv(a), for every a and for ZERO too, returns an element and never
\* aborts: without the hint features, when generating hints, and when
\* consuming hints from a store that holds only what generation recorded
\* (div(b, a) is b * inv(a) and returns whenever inv(a) does).
C12_InvNeverAborts ==
    \A t \in Threads :
        (/\ Finished(t, "inv")
         /\ call[t].hit \in {"none", "miss", "gen"}
         /\ OnlyGenerated)
        => pc[t] = "idle" /\ returned[t].tag = "Ok"

\* a step removes no key of either store
KeysKept ==
    /\ DOMAIN INV_NONDET \subseteq DOMAIN INV_NONDET'
    /\ DOMAIN INV_NONDET_QUAD \subseteq DOMAIN INV_NONDET_QUAD'

\* a step that changes INV_NONDET is the insert of the generate-hints block
\* of an inv that returns, or an insert by other code of the process; a step
\* that changes INV_NONDET_QUAD is the insert of save_hint under
\* generate-hints.  Every other step (a lookup of inv, use_hint, the clones
\* of the snapshot) leaves both stores as they are.
WritesAreInserts ==
    /\ INV_NONDET' # INV_NONDET =>
           \/ /\ generate_hints
              /\ \E t \in Threads :
                     /\ pc[t] = "inv_chain" /\ pc'[t] = "idle"
                     /\ call[t].fn = "inv"
                     /\ INV_NONDET' = Insert(INV_NONDET, call[t].a,
                                             returned'[t].val)
           \/ /\ UNCHANGED <<pc, call, local, returned>>
              /\ \E k \in DOMAIN origin' :
                     /\ origin'[k] = "ext"
                     /\ INV_NONDET' = Insert(INV_NONDET, k, INV_NONDET'[k])
    /\ INV_NONDET_QUAD' # INV_NONDET_QUAD =>
           /\ generate_hints
           /\ \E t \in Threads :
                  /\ call'[t].fn = "save_hint"
                  /\ INV_NONDET_QUAD' =
                         Insert(INV_NONDET_QUAD, save_hint_key(call'[t].a),
                                save_hint_value(call'[t].b))

\* the key sets of the last snapshot a thread took are within the stores
SnapshotWithinStores ==
    \A t \in Threads :
        (Finished(t, "snapshot") /\ returned[t].tag = "Ok")
        => /\ returned[t].val[1] \subseteq DOMAIN INV_NONDET
           /\ returned[t].val[2] \subseteq DOMAIN INV_NONDET_QUAD

\* C13: no step of inv, save_hint, use_hint or the snapshot removes a key
\* of INV_NONDET or INV_NONDET_QUAD; the stores change only by the inserts
\* of hint generation; and so the keys of a snapshot stay within the stores
\* from then on, whence within every later snapshot.
C13_StoresGrow ==
    /\ []SnapshotWithinStores
    /\ [][KeysKept /\ WritesAreInserts]_vars

\* C13 happens: a snapshot with keys of both stores was taken and hint
\* generation has since recorded a key it does not have
C13_Witness ==
    \E t \in Threads :
        /\ Finished(t, "snapshot") /\ returned[t].tag = "Ok"
        /\ returned[t].val[1] # {} /\ returned[t].val[2] # {}
        /\ \E k \in DOMAIN INV_NONDET :
               k \notin returned[t].val[1] /\ origin[k] = "gen"

\* C14: no thread holds the lock of one hint store while it acquires or
\* holds the lock of the other.
C14_NoNestedLocks ==
    \A t \in Threads : ~(inv_lock = t /\ quad_lock = t)

\* C15: every element built by convert_into, and every element derived from
\* built ones by add, sub, mul, neg or the plain-chain inv, has a stored val
\* below M; the operands of every such operation have one too.
C15_CanonicalClosure ==
    /\ \A i \in DOMAIN trail : IsCanonical(trail[i])
    /\ op \in {"add", "sub", "mul", "neg", "inv"} =>
           /\ \A i \in DOMAIN args : IsCanonical(args[i])
           /\ IsCanonical(out.val)

\* C15 happens: the third element built is the inverse of an element that
\* was itself derived from a built one and encodes no zero
C15_Witness ==
    /\ Len(trail) = 3
    /\ op = "inv"
    /\ args = <<trail[2]>>
    /\ out.val = trail[3]
    /\ trail[2] \notin {convert_into(x) : x \in Seeds}
    /\ trail[2] # ZERO

====
